---------------------------- MODULE Spec2Model ----------------------------
(***************************************************************************)
(* Session bookkeeping and backend calls of the bandmate-mcp server        *)
(* (src/src/index.ts): the /mcp handler with its table of streamable       *)
(* transports, the legacy /sse and /messages handlers with their table,    *)
(* the one shared McpServer all transports are connected to, and           *)
(* apiRequest as called by a tool invocation.                              *)
(*                                                                         *)
(* The transports and the server come from @modelcontextprotocol/sdk.      *)
(* Their steps are modelled at the call sites of index.ts:                 *)
(*   - server.connect(t) stores t as the server's one current transport    *)
(*     and wraps t.onclose so that a close also clears that field;         *)
(*   - the server answers a request through the transport that is current  *)
(*     when the request arrives;                                           *)
(*   - a streamable transport mints its session id and calls               *)
(*     onsessioninitialized when it handles an initialize request, rejects *)
(*     every other request until then, and closes itself on DELETE;        *)
(*   - an SSE transport mints its own session id in its constructor and    *)
(*     announces that id to the client in the endpoint event.              *)
(* Requests are taken with well-formed Accept/Content-Type headers and a   *)
(* well-formed JSON-RPC body.                                              *)
(*                                                                         *)
(* `await server.connect(transport)` is modelled as a suspension point:    *)
(* other handlers may run between the connect and the handleRequest that   *)
(* follows it.  In app.get("/sse") the connect may also fail: the          *)
(* transport's start() throws after the server has taken the transport,    *)
(* and the request is answered 500.                                        *)
(*                                                                         *)
(* SpecTools follows one tool handler at a time, from its call to the      *)
(* request it hands to fetch and from the backend's answer to what it      *)
(* returns or throws.  Strings whose letters matter are sequences of       *)
(* characters; a JSON text is a value together with its layout, so that    *)
(* parsing and printing are not the identity; an optional parameter or     *)
(* property is a record saying whether it is set.                          *)
(***************************************************************************)
EXTENDS Integers, Sequences, FiniteSets, TLC

VARIABLES
    transports,            \* every transport object constructed so far
    streamableTransports,  \* Map<string, StreamableHTTPServerTransport>
    sseTransports,         \* Map<string, SSEServerTransport>
    serverTransport,       \* the shared McpServer's current transport
    uuid,                  \* how many crypto.randomUUID() values were drawn
    pending,               \* /mcp handlers suspended at await server.connect
    calls,                 \* tool invocations, in order of arrival
    reqNo,                 \* HTTP requests received so far
    last,                  \* the latest request and the response to it
    token,                 \* AUTH_TOKEN
    tc                     \* the tool handler being followed in detail

sessionVars == <<transports, streamableTransports, sseTransports,
                 serverTransport, uuid, pending, calls, reqNo, last>>

toolVars == <<token, tc>>

vars == <<sessionVars, toolVars>>

----------------------------------------------------------------------------
(* Bounds of the model *)

MaxTransports == 2

MaxRequests == 3

MaxCalls == 1

----------------------------------------------------------------------------
(* Values *)

\* req.headers["mcp-session-id"] absent (undefined); also transport.sessionId
\* before initialization and server._transport when not connected
NoSid == 0

NoTransport == 0

Methods == {"GET", "POST", "DELETE"}

\* JSON-RPC payload of a request: the initialize handshake, a tools/call,
\* or any other message
Bodies == {"initialize", "tools/call", "other"}

\* HTTP statuses the backend answers with
BackendStatuses == {200, 404, 500}

BackendTexts == {"[]", "oops"}

\* session ids a client may put in a request: none, any id drawn so far, and
\* one that has not been drawn yet
RequestSids == 0 .. (uuid + 1)

----------------------------------------------------------------------------
(* Map operations *)

MapHas(m, k) == k \in DOMAIN m

MapSet(m, k, v) == [x \in (DOMAIN m) \cup {k} |-> IF x = k THEN v ELSE m[x]]

MapDelete(m, k) == [x \in (DOMAIN m) \ {k} |-> m[x]]

EmptyMap == [x \in {} |-> 0]

----------------------------------------------------------------------------
(* Pure parts of the handlers *)

\* a generator that returns the same value at every draw
RandomUUID_Same(n) == 1

\* crypto.randomUUID(): the value drawn when n values were drawn before;
\* every draw is a value never drawn before
RandomUUID(n) == n + 1

\* Route without the method test: any request without session id creates
Route_AnyMethod(sid, method) ==
    IF sid # NoSid /\ MapHas(streamableTransports, sid) THEN "existing"
    ELSE IF sid = NoSid THEN "create"
    ELSE "reject"

\* Route with the branches in the wrong order: a POST always creates
Route_PostCreates(sid, method) ==
    IF method = "POST" THEN "create"
    ELSE IF sid # NoSid /\ MapHas(streamableTransports, sid) THEN "existing"
    ELSE "reject"

\* the three branches of app.all("/mcp"), in the order the code tests them
Route(sid, method) ==
    IF sid # NoSid /\ MapHas(streamableTransports, sid) THEN "existing"
    ELSE IF sid = NoSid /\ method = "POST" THEN "create"
    ELSE "reject"

\* new StreamableHTTPServerTransport({...}): no session id, not initialized
NewStreamable ==
    [kind |-> "streamable", sessionId |-> NoSid, initialized |-> FALSE,
     closed |-> FALSE, key |-> NoSid]

\* new SSEServerTransport("/messages", res): the constructor draws the
\* transport's own session id; key is the id the /sse handler draws after
\* it; initialized: the transport has started its event stream
NewSse(n) ==
    [kind |-> "sse", sessionId |-> RandomUUID(n), initialized |-> FALSE,
     closed |-> FALSE, key |-> RandomUUID(n + 1)]

\* OnSessionInitialized with `transport` shared by all handlers: the entry
\* gets the transport constructed last
OnSessionInitialized_Latest(table, newSessionId, t) ==
    MapSet(table, newSessionId, Len(transports))

\* onsessioninitialized: (newSessionId) => streamableTransports.set(...)
OnSessionInitialized(table, newSessionId, t) == MapSet(table, newSessionId, t)

\* OnClose that empties the table
OnClose_Clear(table, tr) == EmptyMap

\* OnClose that forgets the delete
OnClose_Keep(table, tr) == table

\* transport.onclose: if (transport.sessionId) streamableTransports.delete(...)
OnClose(table, tr) ==
    IF tr.sessionId # NoSid THEN MapDelete(table, tr.sessionId) ELSE table

\* SseRegister placed after await server.connect(transport): a transport
\* whose connect failed is not registered
SseRegister_AfterConnect(table, tr, t) ==
    IF transports'[t].initialized THEN MapSet(table, tr.key, t) ELSE table

\* sseTransports.set(sessionId, transport)
SseRegister(table, tr, t) == MapSet(table, tr.key, t)

\* res.on("close", () => sseTransports.delete(sessionId))
SseOnClose(table, tr) == MapDelete(table, tr.key)

\* transport.handleRequest: the HTTP status the transport answers with
HandleStatus(tr, method, sid, body) ==
    IF method = "POST" /\ body = "initialize"
    THEN IF tr.initialized /\ tr.sessionId # NoSid THEN 400 ELSE 200
    ELSE IF ~tr.initialized THEN 400
    ELSE IF sid = NoSid THEN 400
    ELSE IF sid # tr.sessionId THEN 404
    ELSE IF method = "POST" /\ body = "other" THEN 202
    ELSE 200

\* response.ok
ResponseOk(status) == status \in 200 .. 299

\* an error message that leaves out the response body
ErrorMessage_NoText(status, errorText) ==
    <<"API request failed: ", ToString(status)>>

\* throw new Error(`API request failed: ${response.status} - ${errorText}`)
ErrorMessage(status, errorText) ==
    <<"API request failed: ", ToString(status), " - ", errorText>>

\* a tool invocation as the server dispatches it on transport t: the server
\* keeps its current transport for the answer, the handler has called
\* apiRequest, which has called fetch once and is suspended at the await
NewCall(t) ==
    [on |-> t, captured |-> serverTransport, phase |-> "fetch",
     fetches |-> 1, status |-> 0, text |-> "", message |-> <<>>]

\* apiRequest after fetch resolved: throws on a non-2xx status, else returns
ApiRequestDone(c, status, text) ==
    IF ResponseOk(status)
    THEN [c EXCEPT !.phase = "result", !.status = status, !.text = text]
    ELSE [c EXCEPT !.phase = "error", !.status = status, !.text = text,
                   !.message = ErrorMessage(status, text)]

Response(ep, method, sid, body, status, t) ==
    [ep |-> ep, method |-> method, sid |-> sid, body |-> body,
     status |-> status, to |-> t]

----------------------------------------------------------------------------
(* Tool handlers: values *)

\* longest song collection the backend returns
MaxSongs == 2

\* process.env.BANDMATE_AUTH_TOKEN || ""
Tokens == {"", "secret"}

\* an optional parameter: left out (undefined), or supplied with a value
Opt(S, d) == {[set |-> FALSE, v |-> d]} \cup {[set |-> TRUE, v |-> x] : x \in S}

\* supplied string parameters, the empty string among them
UserIds == {"", "u 1"}

IdLists == {"", "1,2"}

Ids == {"s1"}

Keys == {"", "Am"}

Bpms == {0, 120}

\* strings whose letters matter are sequences of characters
Queries == {<<>>, <<"o">>, <<"f", "o">>, <<"F", "O">>, <<"F", "o">>, <<"x", "f">>}

Song(title, tags) == [title |-> title, tags |-> tags]

\* song objects the backend returns: matched by title, matched by a tag,
\* matched by neither, and one without title and tags
Songs ==
    { Song([set |-> TRUE, v |-> <<"F", "o", "x">>], [set |-> TRUE, v |-> <<>>]),
      Song([set |-> TRUE, v |-> <<"x">>],
           [set |-> TRUE, v |-> << <<"x">>, <<"f", "O">> >>]),
      Song([set |-> TRUE, v |-> <<"x">>], [set |-> TRUE, v |-> <<>>]),
      Song([set |-> FALSE, v |-> <<>>], [set |-> FALSE, v |-> <<>>]) }

SongSeqs == UNION {[1 .. n -> Songs] : n \in 0 .. MaxSongs}

\* JSON values the backend answers with: an array of songs, an object whose
\* body member is an array of songs, and an object without body member
JsonValues ==
    {[kind |-> k, items |-> c] : k \in {"array", "wrapped"}, c \in SongSeqs}
        \cup {[kind |-> "object", items |-> <<>>]}

\* a JSON text: a value in some layout
JsonFormats == {"compact", "indent2"}

JsonTexts == {[json |-> j, format |-> f] : j \in JsonValues, f \in JsonFormats}

ToolStatuses == {200, 500}

ToolNames ==
    {"get_songs", "get_song", "get_songs_by_user", "get_songs_in_list",
     "upsert_song", "get_lists", "get_list", "upsert_list", "get_artists",
     "upsert_artist", "search_songs"}

\* the parameter records of each tool (what the schema accepts)
ArgsOf(tool) ==
    CASE tool = "get_songs" ->
           {[userId |-> u, ids |-> i] :
               u \in Opt(UserIds, ""), i \in Opt(IdLists, "")}
      [] tool \in {"get_song", "get_list"} -> {[id |-> i] : i \in Ids}
      [] tool = "get_songs_by_user" -> {[userId |-> "u 1"]}
      [] tool = "get_songs_in_list" -> {[listId |-> "s1"]}
      [] tool = "upsert_song" ->
           {[id |-> i, title |-> "T", chordsText |-> "C G", isPublic |-> FALSE,
             bpm |-> b, key |-> k, voice |-> v,
             tags |-> [set |-> FALSE, v |-> <<>>],
             spotifyUrl |-> [set |-> FALSE, v |-> ""],
             youtubeUrl |-> [set |-> FALSE, v |-> ""],
             userId |-> [set |-> FALSE, v |-> ""]] :
               i \in Opt(Ids, ""), b \in Opt(Bpms, 0), k \in Opt(Keys, ""),
               v \in Opt(Keys, "")}
      [] tool = "get_lists" -> {[userId |-> u] : u \in Opt(UserIds, "")}
      [] tool = "upsert_list" ->
           {[id |-> i, name |-> n, isPrivate |-> FALSE,
             songs |-> [set |-> FALSE, v |-> <<>>], userId |-> u] :
               i \in Opt(Ids, ""), n \in Opt(Keys, ""), u \in Opt(UserIds, "")}
      [] tool = "get_artists" -> {[none |-> TRUE]}
      [] tool = "upsert_artist" -> {[name |-> "Ann"]}
      [] tool = "search_songs" ->
           {[query |-> q, userId |-> u] :
               q \in Queries, u \in Opt(UserIds, "")}

----------------------------------------------------------------------------
(* Tool handlers: the language's and the library's operations *)

\* if (x) on an optional string: undefined and "" are falsy
TruthyStr(p) == p.set /\ p.v # ""

\* if (x) on an optional number: undefined and 0 are falsy
TruthyNum(p) == p.set /\ p.v # 0

\* if (x) on an optional array: only undefined is falsy
TruthyArr(p) == p.set

NoStr == [set |-> FALSE, v |-> ""]

NoNum == [set |-> FALSE, v |-> 0]

NoSeq == [set |-> FALSE, v |-> <<>>]

\* URLSearchParams.toString() on one value: form encoding
FormEncode(str) ==
    CASE str = "u 1" -> "u+1"
      [] str = "1,2" -> "1%2C2"
      [] OTHER -> str

\* encodeURIComponent
EncodeURIComponent(str) ==
    CASE str = "u 1" -> "u%201"
      [] str = "1,2" -> "1%2C2"
      [] OTHER -> str

\* an endpoint: the path, then "?" and the name=value pairs when there are any
Endpoint(path, query) == [path |-> path, query |-> query]

Param(name, value) == [name |-> name, value |-> value]

\* JSON.stringify(value, null, indent): the text of the value in that layout
JsonStringify(value, indent) ==
    [json |-> value, format |-> IF indent = 2 THEN "indent2" ELSE "compact"]

\* response.json(): the value of the text, whatever its layout
JsonParse(text) == text.json

\* String.prototype.toLowerCase, letter by letter
LowerChar(c) ==
    CASE c = "F" -> "f"
      [] c = "O" -> "o"
      [] c = "X" -> "x"
      [] OTHER -> c

ToLowerCase(str) == [i \in DOMAIN str |-> LowerChar(str[i])]

\* String.prototype.includes
Includes(str, part) ==
    \E i \in 0 .. (Len(str) - Len(part)) :
        SubSeq(str, i + 1, i + Len(part)) = part

\* tags.some((tag) => tag.toLowerCase().includes(queryLower))
TagsMatch(tags, queryLower) ==
    \E i \in DOMAIN tags : Includes(ToLowerCase(tags[i]), queryLower)

----------------------------------------------------------------------------
(* apiRequest *)

\* the arguments of one apiRequest call, with the defaults of its signature
ApiCall(endpoint, method, body, requiresAuth) ==
    [endpoint |-> endpoint, method |-> method, body |-> body,
     requiresAuth |-> requiresAuth]

ApiGet(endpoint) == ApiCall(endpoint, "GET", [set |-> FALSE, v |-> <<>>], FALSE)

\* ApiHeaders that sends the token on every call
ApiHeaders_Always(requiresAuth) ==
    [contentType |-> "application/json",
     authorization |-> IF token # ""
                       THEN [set |-> TRUE, v |-> <<"Bearer ", token>>]
                       ELSE NoSeq]

\* headers: Content-Type always, Authorization if (requiresAuth && AUTH_TOKEN)
ApiHeaders(requiresAuth) ==
    [contentType |-> "application/json",
     authorization |-> IF requiresAuth /\ token # ""
                       THEN [set |-> TRUE, v |-> <<"Bearer ", token>>]
                       ELSE NoSeq]

\* the request apiRequest hands to fetch
ApiFetch(call) ==
    [method |-> call.method,
     endpoint |-> call.endpoint,
     headers |-> ApiHeaders(call.requiresAuth),
     body |-> IF call.body.set /\ call.method \in {"POST", "PUT", "PATCH"}
              THEN [set |-> TRUE, v |-> JsonStringify(call.body.v, 0)]
              ELSE [set |-> FALSE, v |-> JsonStringify(<<>>, 0)]]

----------------------------------------------------------------------------
(* Tool handlers *)

\* GetSongsQuery with the two tests swapped: userId wins over ids
GetSongsQuery_UserFirst(args) ==
    IF TruthyStr(args.userId)
    THEN <<Param("userId", FormEncode(args.userId.v))>>
    ELSE IF TruthyStr(args.ids)
    THEN <<Param("ids", FormEncode(args.ids.v))>>
    ELSE <<>>

\* get_songs: if (ids) params.append("ids", ids)
\*            else if (userId) params.append("userId", userId)
GetSongsQuery(args) ==
    IF TruthyStr(args.ids)
    THEN <<Param("ids", FormEncode(args.ids.v))>>
    ELSE IF TruthyStr(args.userId)
    THEN <<Param("userId", FormEncode(args.userId.v))>>
    ELSE <<>>

\* get_lists and search_songs: if (userId) endpoint += `?userId=${...}`
UserIdQuery(userId) ==
    IF TruthyStr(userId)
    THEN <<Param("userId", EncodeURIComponent(userId.v))>>
    ELSE <<>>

\* upsert_song: details starts as {} and gets bpm, key, voice under if (x)
SongDetails(args) ==
    [bpm |-> IF TruthyNum(args.bpm) THEN args.bpm ELSE NoNum,
     key |-> IF TruthyStr(args.key) THEN args.key ELSE NoStr,
     voice |-> IF TruthyStr(args.voice) THEN args.voice ELSE NoStr]

\* upsert_song: songData
SongData(args) ==
    [title |-> args.title,
     chords_text |-> args.chordsText,
     public |-> args.isPublic,
     details |-> [set |-> TRUE, v |-> SongDetails(args)],
     tags |-> IF TruthyArr(args.tags) THEN args.tags.v ELSE <<>>,
     id |-> IF TruthyStr(args.id) THEN args.id ELSE NoStr,
     spotifyUrl |-> IF TruthyStr(args.spotifyUrl) THEN args.spotifyUrl
                    ELSE NoStr,
     youtubeUrl |-> IF TruthyStr(args.youtubeUrl) THEN args.youtubeUrl
                    ELSE NoStr,
     user_id |-> IF TruthyStr(args.userId) THEN args.userId ELSE NoStr]

\* upsert_list: listData
ListData(args) ==
    [private |-> args.isPrivate,
     id |-> IF TruthyStr(args.id) THEN args.id ELSE NoStr,
     name |-> IF TruthyStr(args.name) THEN args.name ELSE NoStr,
     songs |-> IF TruthyArr(args.songs) THEN args.songs ELSE NoSeq,
     user_uid |-> IF TruthyStr(args.userId) THEN args.userId ELSE NoStr]

\* the apiRequest call each handler makes
ToolCall(tool, args) ==
    CASE tool = "get_songs" ->
           ApiGet(Endpoint(<<"/songs">>, GetSongsQuery(args)))
      [] tool = "get_song" -> ApiGet(Endpoint(<<"/songs/", args.id>>, <<>>))
      [] tool = "get_songs_by_user" ->
           ApiGet(Endpoint(<<"/songs/user/", args.userId>>, <<>>))
      [] tool = "get_songs_in_list" ->
           ApiGet(Endpoint(<<"/songs/list/", args.listId>>, <<>>))
      [] tool = "upsert_song" ->
           ApiCall(Endpoint(<<"/songs">>, <<>>), "POST",
                   [set |-> TRUE, v |-> SongData(args)], FALSE)
      [] tool = "get_lists" ->
           ApiGet(Endpoint(<<"/lists">>, UserIdQuery(args.userId)))
      [] tool = "get_list" -> ApiGet(Endpoint(<<"/lists/", args.id>>, <<>>))
      [] tool = "upsert_list" ->
           ApiCall(Endpoint(<<"/lists">>, <<>>), "POST",
                   [set |-> TRUE, v |-> ListData(args)], TRUE)
      [] tool = "get_artists" -> ApiGet(Endpoint(<<"/artists">>, <<>>))
      [] tool = "upsert_artist" ->
           ApiCall(Endpoint(<<"/artists">>, <<>>), "POST",
                   [set |-> TRUE, v |-> [name |-> args.name]], FALSE)
      [] tool = "search_songs" ->
           ApiGet(Endpoint(<<"/songs">>, UserIdQuery(args.userId)))

\* SongMatches that compares the title as it is written
SongMatches_TitleAsWritten(song, queryLower) ==
    \/ song.title.set /\ Includes(song.title.v, queryLower)
    \/ /\ song.tags.set
       /\ TagsMatch(song.tags.v, queryLower)

\* search_songs: the filter's test, titleMatch || tagsMatch
SongMatches(song, queryLower) ==
    \/ song.title.set /\ Includes(ToLowerCase(song.title.v), queryLower)
    \/ /\ song.tags.set
       /\ TagsMatch(song.tags.v, queryLower)

\* search_songs: const songs = result.body || result
SearchCollection(result) ==
    IF result.kind = "wrapped"
    THEN [kind |-> "array", items |-> result.items]
    ELSE result

\* search_songs: songs.filter(...) with queryLower = query.toLowerCase()
SearchFilter(songs, query) ==
    SelectSeq(songs, LAMBDA song : SongMatches(song, ToLowerCase(query)))

\* ToolContent without the indentation argument
ToolContent_Compact(value) ==
    <<[type |-> "text", text |-> JsonStringify(value, 0)]>>

\* content: [{ type: "text", text: JSON.stringify(value, null, 2) }]
ToolContent(value) == <<[type |-> "text", text |-> JsonStringify(value, 2)]>>

\* what a handler returns or throws once apiRequest has returned `result`
ToolReturn(tool, args, result) ==
    IF tool # "search_songs"
    THEN [kind |-> "result", content |-> ToolContent(result), message |-> <<>>]
    ELSE IF SearchCollection(result).kind # "array"
    THEN [kind |-> "error", content |-> <<>>,
          message |-> <<"TypeError: songs.filter is not a function">>]
    ELSE [kind |-> "result",
          content |-> ToolContent(
              [kind |-> "array",
               items |-> SearchFilter(SearchCollection(result).items,
                                      args.query)]),
          message |-> <<>>]

\* what an invocation ends in, given the backend's status and body
ToolOutcome(tool, args, status, text) ==
    IF ~ResponseOk(status)
    THEN [kind |-> "error", content |-> <<>>,
          message |-> ErrorMessage(status, text)]
    ELSE ToolReturn(tool, args, JsonParse(text))

\* no handler is being followed
Idle ==
    [phase |-> "idle", tool |-> "", args |-> <<>>, req |-> <<>>,
     status |-> 0, text |-> <<>>, out |-> <<>>]

----------------------------------------------------------------------------
Init ==
    /\ transports = <<>>
    /\ streamableTransports = EmptyMap
    /\ sseTransports = EmptyMap
    /\ serverTransport = NoTransport
    /\ uuid = 0
    /\ pending = {}
    /\ calls = <<>>
    /\ reqNo = 0
    /\ last = Response("", "", NoSid, "", 0, NoTransport)
    /\ token = ""
    /\ tc = Idle

\* transport.handleRequest(req, res, req.body) on transport t
HandleRequest(t, method, sid, body) ==
    LET tr == transports[t]
        st == HandleStatus(tr, method, sid, body)
        ok == st \in {200, 202}
    IN  /\ last' = Response("/mcp", method, sid, body, st, t)
        /\ IF ok /\ method = "POST" /\ body = "initialize"
           THEN /\ transports' = [transports EXCEPT
                       ![t].sessionId = RandomUUID(uuid),
                       ![t].initialized = TRUE]
                /\ uuid' = uuid + 1
                /\ streamableTransports' =
                       OnSessionInitialized(streamableTransports,
                                            RandomUUID(uuid), t)
                /\ UNCHANGED <<serverTransport, calls>>
           ELSE IF ok /\ method = "POST" /\ body = "tools/call"
           THEN /\ Len(calls) < MaxCalls
                /\ calls' = Append(calls, NewCall(t))
                /\ UNCHANGED <<transports, uuid, streamableTransports,
                               serverTransport>>
           ELSE IF ok /\ method = "DELETE"
           THEN /\ transports' = [transports EXCEPT ![t].closed = TRUE]
                /\ streamableTransports' = OnClose(streamableTransports, tr)
                /\ serverTransport' = NoTransport
                /\ UNCHANGED <<uuid, calls>>
           ELSE UNCHANGED <<transports, uuid, streamableTransports,
                            serverTransport, calls>>

\* app.all("/mcp"), up to its first suspension point
McpRequest(method, sid, body) ==
    /\ reqNo < MaxRequests
    /\ method # "POST" => body = "other"
    /\ reqNo' = reqNo + 1
    /\ UNCHANGED sseTransports
    /\ LET r == Route(sid, method) IN
       IF r = "existing"
       THEN /\ HandleRequest(streamableTransports[sid], method, sid, body)
            /\ UNCHANGED pending
       ELSE IF r = "create"
       THEN /\ Len(transports) < MaxTransports
            /\ transports' = Append(transports, NewStreamable)
            /\ serverTransport' = Len(transports) + 1
            /\ pending' = pending \cup
                   {[t |-> Len(transports) + 1, body |-> body]}
            /\ last' = Response("/mcp", method, sid, body, 0,
                                Len(transports) + 1)
            /\ UNCHANGED <<streamableTransports, uuid, calls>>
       ELSE /\ last' = Response("/mcp", method, sid, body, 400, NoTransport)
            /\ UNCHANGED <<transports, streamableTransports, serverTransport,
                           uuid, pending, calls>>

\* app.all("/mcp") resumed after await server.connect(transport)
McpResume(p) ==
    /\ p \in pending
    /\ pending' = pending \ {p}
    /\ HandleRequest(p.t, "POST", NoSid, p.body)
    /\ UNCHANGED <<sseTransports, reqNo>>

\* app.get("/sse"); connected: whether await server.connect(transport)
\* returns (the transport has started its event stream) or throws
SseGet(connected) ==
    /\ reqNo < MaxRequests
    /\ Len(transports) < MaxTransports
    /\ reqNo' = reqNo + 1
    /\ transports' = Append(transports,
           [NewSse(uuid) EXCEPT !.initialized = connected])
    /\ uuid' = uuid + 2
    /\ sseTransports' = SseRegister(sseTransports, NewSse(uuid),
                                    Len(transports) + 1)
    /\ serverTransport' = Len(transports) + 1
    /\ last' = Response("/sse", "GET", NoSid, "other",
                        IF connected THEN 200 ELSE 500, Len(transports) + 1)
    /\ UNCHANGED <<streamableTransports, pending, calls>>

\* the "close" event of an /sse response
SseClose(t) ==
    /\ t \in 1 .. Len(transports)
    /\ transports[t].kind = "sse"
    /\ ~transports[t].closed
    /\ transports' = [transports EXCEPT ![t].closed = TRUE]
    /\ sseTransports' = SseOnClose(sseTransports, transports[t])
    /\ serverTransport' = IF transports[t].initialized THEN NoTransport
                          ELSE serverTransport
    /\ UNCHANGED <<streamableTransports, uuid, pending, calls, reqNo, last>>

\* app.post("/messages")
MessagesPost(sid, body) ==
    /\ reqNo < MaxRequests
    /\ reqNo' = reqNo + 1
    /\ UNCHANGED <<transports, streamableTransports, sseTransports,
                   serverTransport, uuid, pending>>
    /\ IF ~MapHas(sseTransports, sid)
       THEN /\ last' = Response("/messages", "POST", sid, body, 400,
                                NoTransport)
            /\ UNCHANGED calls
       ELSE IF ~transports[sseTransports[sid]].initialized
       THEN /\ last' = Response("/messages", "POST", sid, body, 500,
                                sseTransports[sid])
            /\ UNCHANGED calls
       ELSE /\ last' = Response("/messages", "POST", sid, body, 202,
                                sseTransports[sid])
            /\ IF body = "tools/call"
               THEN /\ Len(calls) < MaxCalls
                    /\ calls' = Append(calls, NewCall(sseTransports[sid]))
               ELSE UNCHANGED calls

\* the backend answers the fetch of invocation i
BackendRespond(i, status, text) ==
    /\ i \in 1 .. Len(calls)
    /\ calls[i].phase = "fetch"
    /\ calls' = [calls EXCEPT ![i] = ApiRequestDone(calls[i], status, text)]
    /\ UNCHANGED <<transports, streamableTransports, sseTransports,
                   serverTransport, uuid, pending, reqNo, last>>

Next ==
    \/ /\ UNCHANGED toolVars
       /\ \E m \in Methods, sid \in RequestSids, b \in Bodies :
              McpRequest(m, sid, b)
    \/ /\ UNCHANGED toolVars
       /\ \E p \in pending : McpResume(p)
    \/ /\ UNCHANGED toolVars
       /\ \E connected \in BOOLEAN : SseGet(connected)
    \/ /\ UNCHANGED toolVars
       /\ \E t \in 1 .. MaxTransports : SseClose(t)
    \/ /\ UNCHANGED toolVars
       /\ \E sid \in RequestSids, b \in Bodies : MessagesPost(sid, b)
    \/ /\ UNCHANGED toolVars
       /\ \E i \in 1 .. MaxCalls, st \in BackendStatuses,
                tx \in BackendTexts :
              BackendRespond(i, st, tx)

Spec == Init /\ [][Next]_vars

----------------------------------------------------------------------------
(* A tool handler followed step by step *)

InitTools ==
    /\ transports = <<>>
    /\ streamableTransports = EmptyMap
    /\ sseTransports = EmptyMap
    /\ serverTransport = NoTransport
    /\ uuid = 0
    /\ pending = {}
    /\ calls = <<>>
    /\ reqNo = 0
    /\ last = Response("", "", NoSid, "", 0, NoTransport)
    /\ token \in Tokens
    /\ tc = Idle

\* the server calls the handler of `tool` with `args`; the handler runs up
\* to await fetch(...) in apiRequest
Invoke(tool, args) ==
    /\ tc.phase = "idle"
    /\ tc' = [Idle EXCEPT !.phase = "fetch", !.tool = tool, !.args = args,
                          !.req = ApiFetch(ToolCall(tool, args))]
    /\ UNCHANGED <<token, sessionVars>>

\* the backend answers; apiRequest and the handler run to their end
Answer(status, text) ==
    /\ tc.phase = "fetch"
    /\ tc' = [tc EXCEPT !.phase = "done", !.status = status, !.text = text,
                        !.out = ToolOutcome(tc.tool, tc.args, status, text)]
    /\ UNCHANGED <<token, sessionVars>>

\* the server is ready for the next invocation
Finish ==
    /\ tc.phase = "done"
    /\ tc' = Idle
    /\ UNCHANGED <<token, sessionVars>>

NextTools ==
    \/ \E tool \in ToolNames : \E args \in ArgsOf(tool) : Invoke(tool, args)
    \/ \E status \in ToolStatuses, text \in JsonTexts : Answer(status, text)
    \/ Finish

SpecTools == InitTools /\ [][NextTools]_vars

----------------------------------------------------------------------------
(* Vocabulary of the properties *)

\* this step is the arrival of a request at /mcp
McpStep == reqNo' = reqNo + 1 /\ last'.ep = "/mcp"

\* this step is the arrival of a request at /messages
MessagesStep == reqNo' = reqNo + 1 /\ last'.ep = "/messages"

\* the request that arrives in this step carries a key of the session table
KnownSid == last'.sid # NoSid /\ MapHas(streamableTransports, last'.sid)

\* the request that arrives in this step uses the initializing flow as the
\* session manager defines it: no session id and the POST method
InitializingFlow == last'.sid = NoSid /\ last'.method = "POST"

Streamables == {t \in 1 .. Len(transports) : transports[t].kind = "streamable"}

Sses == {t \in 1 .. Len(transports) : transports[t].kind = "sse"}

\* transports that signalled close
Closed == {t \in 1 .. Len(transports) : transports[t].closed}

\* transports a table holds
Registered(table) == {table[k] : k \in DOMAIN table}

\* the keys on which two maps differ
ChangedKeys(m1, m2) ==
    {k \in (DOMAIN m1) \cup (DOMAIN m2) :
        \/ ~(MapHas(m1, k) /\ MapHas(m2, k))
        \/ m1[k] # m2[k]}

Carries(message, part) == \E j \in DOMAIN message : message[j] = part

----------------------------------------------------------------------------
(* C1: a request to /mcp whose session id is absent or not a key of the    *)
(* session table, and that does not use the initializing flow (no session  *)
(* id with POST), is answered 400 by the handler itself; it starts no      *)
(* backend call and leaves the session table as it was.                    *)
C1_UnknownSessionRejected ==
    [][ (McpStep /\ ~KnownSid /\ ~InitializingFlow) =>
            /\ last'.status = 400
            /\ last'.to = NoTransport
            /\ calls' = calls
            /\ streamableTransports' = streamableTransports
            /\ Cardinality(DOMAIN streamableTransports') =
                   Cardinality(DOMAIN streamableTransports) ]_vars

\* a bare GET without session id was rejected while a session is open
C1_Witness ==
    /\ last.ep = "/mcp" /\ last.method = "GET" /\ last.sid = NoSid
    /\ last.status = 400
    /\ DOMAIN streamableTransports # {}

(* C2: once a streamable transport has signalled close, its session id is  *)
(* no key of the session table and no entry holds the transport; a later   *)
(* /mcp request carrying that id, whatever its method, is rejected with    *)
(* 400, reaches no transport and leaves the table unchanged.               *)
C2_ClosedSessionUnknown ==
    [][ /\ \A t \in Closed' \cap Streamables' :
              /\ ~MapHas(streamableTransports', transports'[t].sessionId)
              /\ t \notin Registered(streamableTransports')
        /\ \A t \in Closed \cap Streamables :
              (McpStep /\ last'.sid = transports[t].sessionId) =>
                  /\ last'.status = 400
                  /\ last'.to = NoTransport
                  /\ transports' = transports
                  /\ streamableTransports' = streamableTransports ]_vars

\* a POST carrying the id of a closed session was rejected
C2_Witness ==
    \E t \in Closed \cap Streamables :
        /\ transports[t].sessionId # NoSid
        /\ last.ep = "/mcp" /\ last.method = "POST"
        /\ last.sid = transports[t].sessionId
        /\ last.status = 400 /\ last.to = NoTransport

(* C3: every key of the session table is the session id of a streamable    *)
(* transport that has completed initialization; a transport that is not    *)
(* initialized (not yet, or its first request was rejected) is held by no  *)
(* entry.                                                                  *)
C3_RegisteredAfterInit ==
    /\ \A k \in DOMAIN streamableTransports :
          LET t == streamableTransports[k] IN
          /\ t \in Streamables
          /\ transports[t].initialized
          /\ transports[t].sessionId = k
    /\ \A t \in Streamables :
          ~transports[t].initialized => t \notin Registered(streamableTransports)

\* one session is registered, and another transport's first request was
\* rejected: it is connected, not initialized and not registered
C3_Witness ==
    /\ DOMAIN streamableTransports # {}
    /\ pending = {}
    /\ \E t \in Streamables : ~transports[t].initialized

(* C4, as claimed: a /mcp request (GET, POST or DELETE) carrying a key of   *)
(* the session table is handed to the transport stored under that key, and *)
(* handling it creates no transport and leaves the table as it was.        *)
C4_KnownRequestLeavesTable ==
    [][ (McpStep /\ KnownSid) =>
            /\ last'.to = streamableTransports[last'.sid]
            /\ Len(transports') = Len(transports)
            /\ streamableTransports' = streamableTransports ]_vars

(* C4, amended: a /mcp request carrying a key of the session table is      *)
(* handed to the transport stored under that key; handling it creates no   *)
(* transport and adds or replaces no entry; a GET or POST leaves the table *)
(* as it was, and a DELETE removes the entry of that key and no other.     *)
C4_KnownRequestRouted ==
    [][ (McpStep /\ KnownSid) =>
            /\ last'.to = streamableTransports[last'.sid]
            /\ Len(transports') = Len(transports)
            /\ pending' = pending
            /\ \A k \in DOMAIN streamableTransports' :
                   /\ MapHas(streamableTransports, k)
                   /\ streamableTransports'[k] = streamableTransports[k]
            /\ IF last'.method = "DELETE"
               THEN streamableTransports' =
                        MapDelete(streamableTransports, last'.sid)
               ELSE streamableTransports' = streamableTransports ]_vars

\* a DELETE on an open session was handed to its transport, which closed,
\* while another session stays registered
C4_Witness ==
    /\ last.ep = "/mcp" /\ last.method = "DELETE" /\ last.status = 200
    /\ last.to \in Closed \cap Streamables
    /\ last.sid = transports[last.to].sessionId
    /\ DOMAIN streamableTransports # {}

(* C5: the session table binds each identifier to one transport and each   *)
(* transport to one identifier, open sessions have pairwise different      *)
(* identifiers, and the identifier of a session that was removed is never  *)
(* a key of the table again.                                               *)
C5_IdentifiersUnique ==
    /\ \A k1, k2 \in DOMAIN streamableTransports :
          streamableTransports[k1] = streamableTransports[k2] => k1 = k2
    /\ \A t1, t2 \in Streamables \ Closed :
          (/\ transports[t1].initialized
           /\ transports[t2].initialized
           /\ transports[t1].sessionId = transports[t2].sessionId) => t1 = t2
    /\ \A t \in Streamables \cap Closed :
          ~MapHas(streamableTransports, transports[t].sessionId)

\* a session was opened and removed, and a session opened after it is
\* registered under another identifier
C5_Witness ==
    \E t1, t2 \in Streamables :
        /\ t1 < t2
        /\ t1 \in Closed
        /\ transports[t1].sessionId # NoSid
        /\ MapHas(streamableTransports, transports[t2].sessionId)
        /\ streamableTransports[transports[t2].sessionId] = t2

(* C6, as claimed: while two streamable sessions are open, a request that  *)
(* arrives on the transport of one of them is answered through that same   *)
(* transport.                                                              *)
C6_AnsweredOnOwnTransport ==
    [][ (/\ Len(calls') = Len(calls) + 1
         /\ Cardinality(Registered(streamableTransports)) >= 2
         /\ calls'[Len(calls')].on \in Registered(streamableTransports)) =>
            calls'[Len(calls')].captured = calls'[Len(calls')].on ]_vars

(* C7: every step changes each session table in at most one key; an entry  *)
(* leaves a table only in the step in which its own transport closes, an   *)
(* entry enters a table only under an identifier drawn in that step (for   *)
(* the streamable table: for the transport that initializes in that step), *)
(* and no entry is ever replaced.                                          *)
C7_SingleKeyMutations ==
    [][ /\ Cardinality(ChangedKeys(streamableTransports,
                                   streamableTransports')) <= 1
        /\ Cardinality(ChangedKeys(sseTransports, sseTransports')) <= 1
        /\ \A k \in DOMAIN streamableTransports :
              IF MapHas(streamableTransports', k)
              THEN streamableTransports'[k] = streamableTransports[k]
              ELSE /\ ~transports[streamableTransports[k]].closed
                   /\ transports'[streamableTransports[k]].closed
        /\ \A k \in DOMAIN sseTransports :
              IF MapHas(sseTransports', k)
              THEN sseTransports'[k] = sseTransports[k]
              ELSE /\ ~transports[sseTransports[k]].closed
                   /\ transports'[sseTransports[k]].closed
        /\ \A k \in (DOMAIN streamableTransports')
                        \ (DOMAIN streamableTransports) :
              /\ k > uuid
              /\ ~transports[streamableTransports'[k]].initialized
              /\ transports'[streamableTransports'[k]].initialized
        /\ \A k \in (DOMAIN sseTransports') \ (DOMAIN sseTransports) :
              k > uuid ]_vars

\* a streamable session is still registered after a second streamable
\* session, open at the same time, has closed
C7_Witness ==
    \E t1, t2 \in Streamables :
        /\ t1 < t2
        /\ t2 \in Closed
        /\ transports[t2].sessionId # NoSid
        /\ t1 \in Registered(streamableTransports)

(* C8, as claimed: a /mcp request whose session id is absent or unknown    *)
(* and that is not an initialization handshake (in particular a POST       *)
(* without session id whose body is no handshake) constructs no transport, *)
(* connects nothing to the MCP server and leaves the table as it was.      *)
C8_NoResourceAllocated ==
    [][ (/\ McpStep
         /\ ~KnownSid
         /\ ~(InitializingFlow /\ last'.body = "initialize")) =>
            /\ transports' = transports
            /\ serverTransport' = serverTransport
            /\ pending' = pending
            /\ streamableTransports' = streamableTransports ]_vars

(* C9, as claimed: while the event stream opened by GET /sse is open, a    *)
(* POST /messages whose sessionId is the id the transport announced to     *)
(* that client is delivered to that transport and not answered 400; a      *)
(* POST /messages with any other sessionId is answered 400 and changes no  *)
(* table.                                                                  *)
C9_LegacyMessageDelivered ==
    [][ MessagesStep =>
            LET mine == {t \in Sses \ Closed :
                            transports[t].sessionId = last'.sid}
            IN  IF mine # {}
                THEN last'.to \in mine /\ last'.status # 400
                ELSE /\ last'.status = 400
                     /\ sseTransports' = sseTransports
                     /\ streamableTransports' = streamableTransports ]_vars

(* C10: when the backend answers a tool invocation's request with a        *)
(* non-2xx status, the invocation ends in an error and not in a result,    *)
(* the error message carries the status code and the response body text,   *)
(* the invocation has issued exactly one backend request and issues no     *)
(* other afterwards, and the step changes no session table.                *)
C10_BackendFailureSurfaced ==
    [][ \A i \in 1 .. Len(calls) :
          /\ (/\ calls[i].phase = "fetch"
              /\ calls'[i] # calls[i]
              /\ calls'[i].status \notin 200 .. 299) =>
                 /\ calls'[i].phase = "error"
                 /\ Carries(calls'[i].message, ToString(calls'[i].status))
                 /\ Carries(calls'[i].message, calls'[i].text)
                 /\ calls'[i].fetches = 1
                 /\ streamableTransports' = streamableTransports
                 /\ sseTransports' = sseTransports
          /\ calls[i].phase = "error" => calls'[i] = calls[i] ]_vars

\* an invocation on an open session failed on a 404 whose body is "oops",
\* and a request arrived after the failure
C10_Witness ==
    \E i \in 1 .. Len(calls) :
        /\ calls[i].phase = "error"
        /\ calls[i].status = 404
        /\ calls[i].text = "oops"
        /\ DOMAIN streamableTransports # {}
        /\ last.body # "tools/call"

\* the invocation being followed has issued its backend request
Issued == tc.phase \in {"fetch", "done"}

\* the arguments the followed handler gave to apiRequest
IssuedCall == ToolCall(tc.tool, tc.args)

(* C11: the request handed to fetch carries an Authorization header        *)
(* exactly when the apiRequest call asks for auth and the configured token *)
(* is not empty, and the header is then "Bearer " followed by the token;   *)
(* upsert_list with an empty token still issues POST /lists, without the   *)
(* header, and a 200 answer to it gives a result, not an error.            *)
C11_AuthorizationIffRequired ==
    Issued =>
        /\ tc.req.headers.authorization.set
              <=> (IssuedCall.requiresAuth /\ token # "")
        /\ tc.req.headers.authorization.set
              => tc.req.headers.authorization.v = <<"Bearer ", token>>
        /\ tc.tool = "upsert_list" =>
              /\ IssuedCall.requiresAuth
              /\ tc.req.method = "POST"
              /\ tc.req.endpoint = Endpoint(<<"/lists">>, <<>>)
              /\ (tc.phase = "done" /\ tc.status = 200)
                    => tc.out.kind = "result"
        /\ tc.tool # "upsert_list" => ~IssuedCall.requiresAuth

\* upsert_list was answered 200 with no token configured and no header sent
C11_Witness ==
    /\ tc.phase = "done"
    /\ tc.tool = "upsert_list"
    /\ token = ""
    /\ tc.status = 200
    /\ ~tc.req.headers.authorization.set
    /\ tc.out.kind = "result"

\* the followed invocation has ended after the backend answered HTTP 200
Answered200 == tc.phase = "done" /\ tc.status = 200

\* one text block holding `value` laid out with two spaces of indentation
PrettyBlock(value) ==
    <<[type |-> "text", text |-> [json |-> value, format |-> "indent2"]]>>

(* C12 as stated: for every tool, a 200 answer gives a result whose only   *)
(* content block is the pretty-printed JSON of the backend's body.         *)
C12_EveryToolReturnsBody ==
    Answered200 =>
        /\ tc.out.kind = "result"
        /\ tc.out.content = PrettyBlock(tc.text.json)

(* C12: for every tool but search_songs, a 200 answer gives a result whose *)
(* only content block is the pretty-printed JSON of the value of the       *)
(* backend's body, whatever the layout the backend sent it in;             *)
(* search_songs gives a block of the same form holding an array made of    *)
(* entries of the fetched collection, when the body is an array or has an  *)
(* array as its body member.                                               *)
C12_ToolReturnsPrettyBody ==
    Answered200 =>
        /\ tc.tool # "search_songs" =>
              /\ tc.out.kind = "result"
              /\ tc.out.content = PrettyBlock(tc.text.json)
        /\ (tc.tool = "search_songs" /\ tc.text.json.kind # "object") =>
              /\ tc.out.kind = "result"
              /\ Len(tc.out.content) = 1
              /\ tc.out.content[1].type = "text"
              /\ tc.out.content[1].text.format = "indent2"
              /\ tc.out.content[1].text.json.kind = "array"
              /\ \A i \in DOMAIN tc.out.content[1].text.json.items :
                    \E j \in DOMAIN tc.text.json.items :
                        tc.out.content[1].text.json.items[i]
                            = tc.text.json.items[j]

\* get_songs returned a body that the backend had sent in compact layout
C12_Witness ==
    /\ Answered200
    /\ tc.tool = "get_songs"
    /\ tc.text.format = "compact"
    /\ Len(tc.text.json.items) = MaxSongs
    /\ tc.out.content = PrettyBlock(tc.text.json)

(* C13: the body upsert_song sends always has a details object, and the   *)
(* keys of details are exactly those of bpm, key and voice that were       *)
(* supplied (0 and the empty string included), each with its value; so     *)
(* details is {} exactly when all three were left out.                     *)
C13_DetailsHoldsSuppliedKeys ==
    (Issued /\ tc.tool = "upsert_song") =>
        /\ tc.req.body.set
        /\ tc.req.body.v.json.details.set
        /\ tc.req.body.v.json.details.v
              = [bpm |-> tc.args.bpm, key |-> tc.args.key,
                 voice |-> tc.args.voice]

\* the names of the query parameters of the issued request, in order
QueryNames ==
    [i \in DOMAIN tc.req.endpoint.query |-> tc.req.endpoint.query[i].name]

(* C14 as stated: with ids and userId both supplied the query names only   *)
(* ids; with one of them supplied it names exactly that one; with neither  *)
(* the request goes to /songs without query.                               *)
C14_OneSuppliedFilter ==
    (Issued /\ tc.tool = "get_songs") =>
        /\ tc.req.endpoint.path = <<"/songs">>
        /\ QueryNames = IF tc.args.ids.set THEN <<"ids">>
                        ELSE IF tc.args.userId.set THEN <<"userId">>
                        ELSE <<>>

(* C14: get_songs requests /songs with at most one filter; a parameter     *)
(* counts when it is supplied and not the empty string; if ids counts the  *)
(* query is ids alone, with its form-encoded value, whatever userId is;    *)
(* otherwise if userId counts the query is userId alone; otherwise the     *)
(* request has no query string.                                            *)
C14_OneNonEmptyFilter ==
    (Issued /\ tc.tool = "get_songs") =>
        /\ tc.req.method = "GET"
        /\ tc.req.endpoint.path = <<"/songs">>
        /\ Len(tc.req.endpoint.query) <= 1
        /\ tc.req.endpoint.query =
              IF tc.args.ids.set /\ tc.args.ids.v # ""
              THEN <<[name |-> "ids", value |-> FormEncode(tc.args.ids.v)]>>
              ELSE IF tc.args.userId.set /\ tc.args.userId.v # ""
              THEN <<[name |-> "userId",
                      value |-> FormEncode(tc.args.userId.v)]>>
              ELSE <<>>

\* both filters were supplied, non-empty, and the query names ids alone
C14_Witness ==
    /\ Issued
    /\ tc.tool = "get_songs"
    /\ tc.args.ids.set /\ tc.args.ids.v # ""
    /\ tc.args.userId.set /\ tc.args.userId.v # ""
    /\ QueryNames = <<"ids">>

\* two characters that are the same letter, whatever their case
SameLetter(a, b) == a = b \/ LowerChar(a) = b \/ a = LowerChar(b)

\* `part` occurs in `str` when case is ignored
ContainsIgnoringCase(str, part) ==
    \E off \in 0 .. (Len(str) - Len(part)) :
        \A j \in 1 .. Len(part) : SameLetter(str[off + j], part[j])

\* the entry's title, or one of its tags, contains the query
EntryMatches(song, query) ==
    \/ song.title.set /\ ContainsIgnoringCase(song.title.v, query)
    \/ /\ song.tags.set
       /\ \E n \in DOMAIN song.tags.v :
              ContainsIgnoringCase(song.tags.v[n], query)

\* the positions of the matching entries of the collection
MatchingPositions(songs, query) ==
    {i \in DOMAIN songs : EntryMatches(songs[i], query)}

\* the k-th smallest element of a set of positions
NthPosition(S, k) == CHOOSE i \in S : Cardinality({j \in S : j <= i}) = k

\* search_songs was answered 200 with a collection of songs
SearchAnswered ==
    /\ Answered200
    /\ tc.tool = "search_songs"
    /\ tc.text.json.kind # "object"

\* the array search_songs returned
SearchReturned == tc.out.content[1].text.json.items

(* C15: search_songs returns the entries of the fetched collection whose   *)
(* title or one of whose tags contains the query, case ignored: all of     *)
(* them, no other entry, in the order of the collection; and every query   *)
(* that differs from the given one only in case gives the same array.      *)
C15_SearchReturnsMatches ==
    SearchAnswered =>
        /\ tc.out.kind = "result"
        /\ Len(SearchReturned)
              = Cardinality(MatchingPositions(tc.text.json.items, tc.args.query))
        /\ \A k \in DOMAIN SearchReturned :
              SearchReturned[k]
                  = tc.text.json.items[
                        NthPosition(MatchingPositions(tc.text.json.items,
                                                      tc.args.query), k)]
        /\ \A q \in Queries :
              (/\ Len(q) = Len(tc.args.query)
               /\ \A j \in DOMAIN q : SameLetter(q[j], tc.args.query[j]))
                  => SearchFilter(tc.text.json.items, q) = SearchReturned

\* an upper-case query over a collection whose first entry matches by a
\* lower-case title letter and whose second entry matches nothing
C15_Witness ==
    /\ SearchAnswered
    /\ tc.args.query = <<"F", "O">>
    /\ Len(tc.text.json.items) = 2
    /\ tc.text.json.items[1].title = [set |-> TRUE, v |-> <<"F", "o", "x">>]
    /\ ~tc.text.json.items[2].tags.set
    /\ Len(SearchReturned) = 1
    /\ SearchReturned[1] = tc.text.json.items[1]

(* C16: GET /sse registers the new transport in the legacy table in the    *)
(* same step, under an identifier drawn in that step, whether or not the   *)
(* binding to the MCP server succeeds; the entry leaves the table in the   *)
(* step in which the connection closes; so after every step the legacy     *)
(* table holds exactly the /sse connections opened and not yet closed,     *)
(* each under its own key.                                                 *)
C16_LegacyTableTracksConnections ==
    [][ /\ Registered(sseTransports') = Sses' \ Closed'
        /\ \A k \in DOMAIN sseTransports' :
              transports'[sseTransports'[k]].key = k
        /\ Cardinality(DOMAIN sseTransports') = Cardinality(Sses' \ Closed')
        /\ \A t \in Sses' \ Sses :
              /\ transports'[t].key > uuid
              /\ ~MapHas(sseTransports, transports'[t].key) ]_vars

\* a connection whose binding to the server failed is registered, after
\* another connection was opened and has closed
C16_Witness ==
    \E t1, t2 \in Sses :
        /\ t1 \in Closed
        /\ t2 \notin Closed
        /\ ~transports[t2].initialized
        /\ MapHas(sseTransports, transports[t2].key)
        /\ sseTransports[transports[t2].key] = t2

============================================================================
